---- MODULE Spec2Model ----
(***************************************************************************)
(* Braided: dependency-aware start/halt orchestration of resources.        *)
(*                                                                         *)
(* The model follows the orchestrator (startSystem / haltSystem), the      *)
(* topological sorter (topologicalSort), the topology builder              *)
(* (buildTopology) and the dependency normalizer (normalizeDependencies).  *)
(* A system configuration is drawn in Init; one start pass runs over it,   *)
(* and one halt pass runs over the system that the start pass returned.    *)
(* A second call of either operation can run beside or after the first.   *)
(* Each action is one uninterrupted stretch of a pass: from one await to   *)
(* the next.                                                               *)
(***************************************************************************)
EXTENDS Integers, Sequences, FiniteSets, TLC

\* ---------------------------------------------------------------- bounds

\* Largest number of dependency ids declared over a whole configuration.
MaxEdges == 2
\* The same for the configurations that two calls run over side by side.
MaxPairEdges == 1
\* The same for the configurations the sorter and the topology builder are
\* explored over (a diamond has four).
MaxSortEdges == 4

\* Resource ids, in the order Object.keys lists them when a configuration
\* declares them: integer-like names first, ascending, then the other names
\* in the order they were written.
AllKeys == <<"1", "2", "a", "b", "c">>
\* The names that are integer-like property keys.
IntegerKeys == {"1", "2"}
\* The ids of the configurations the passes run over: the first one, two or
\* three of them are declared.
PassKeys == <<"a", "b", "c">>
\* The ids of the configurations that two calls run over side by side.
PairKeys == <<"a", "b">>
\* The ids of the configurations the sorter and the topology builder are
\* explored over: the first one to four of them are declared.
SortKeys == <<"1", "2", "a", "b">>
\* Ids that are never a key of any configuration. "constructor" is one of the
\* property names every plain object literal inherits (Object.prototype).
Ghosts == {"ghost", "constructor"}
InheritedKeys == {"constructor"}

\* ---------------------------------------------------------------- values

\* JavaScript's undefined: an absent instance, an unset field.
Undefined == "undefined"
\* What a start operation can return: an object, a present but falsy value
\* (0, false, "", null), or undefined.
InstanceValues == {"obj", "falsy", Undefined}
Truthy(v) == v = "obj"

\* No entry in an error map.
NoError == [kind |-> "none", id |-> "", cause |-> "none"]
\* The error a start or halt operation of resource id raises.
RawError(op, id) == [kind |-> op, id |-> id, cause |-> "none"]
\* No error thrown out of a pass.
NoThrow == [kind |-> "none", resource |-> "", dep |-> "", unprocessed |-> <<>>]

\* ------------------------------------------------------- sequence helpers

Range(s) == {s[i] : i \in 1..Len(s)}
Reverse(s) == [i \in 1..Len(s) |-> s[Len(s) + 1 - i]]
\* Position of x in s, 0 when absent (Array.prototype.indexOf, 1-based).
IndexOf(s, x) == IF \E i \in 1..Len(s) : s[i] = x
                 THEN CHOOSE i \in 1..Len(s) : s[i] = x /\ \A j \in 1..(i - 1) : s[j] # x
                 ELSE 0
\* Object.keys(config): the declared ids in declaration order.
KeysOf(cfg) == SelectSeq(AllKeys, LAMBDA k : k \in DOMAIN cfg)
\* Object.keys / Object.entries of an object whose keys were set in the order
\* `inserted`: integer-like keys ascending, then the others as inserted.
OwnKeys(inserted) ==
  LET first(j) == \A m \in 1..(j - 1) : inserted[m] # inserted[j]
      once == [j \in 1..Len(inserted) |-> [k |-> inserted[j], first |-> first(j)]]
      kept == SelectSeq(once, LAMBDA e : e.first /\ e.k \notin IntegerKeys)
  IN SelectSeq(AllKeys, LAMBDA k : k \in IntegerKeys /\ k \in Range(inserted))
     \o [j \in 1..Len(kept) |-> kept[j].k]

\* ------------------------------------------------------ dependency specs

AbsentSpec == [form |-> "absent", list |-> <<>>, required |-> <<>>, optional |-> <<>>]
FlatSpec(l) == [form |-> "flat", list |-> l, required |-> <<>>, optional |-> <<>>]
SplitSpec(r, o) == [form |-> "split", list |-> <<>>, required |-> r, optional |-> o]

\* normalizeDependencies(deps).all: required then optional, first occurrences only.
RECURSIVE Dedup(_, _)
Dedup(s, seen) ==
  IF s = <<>> THEN <<>>
  ELSE IF Head(s) \in seen THEN Dedup(Tail(s), seen)
       ELSE <<Head(s)>> \o Dedup(Tail(s), seen \cup {Head(s)})

normalizeDependencies(deps) ==
  IF deps.form = "absent" THEN [required |-> <<>>, optional |-> <<>>, all |-> <<>>]
  ELSE IF deps.form = "flat" THEN [required |-> deps.list, optional |-> <<>>, all |-> deps.list]
  ELSE [required |-> deps.required, optional |-> deps.optional,
        all |-> Dedup(deps.required \o deps.optional, {})]

\* `resource.dependencies || []` as the orchestrator, the sorter and the topology
\* builder iterate it: an absent spec is the empty list, a flat list is itself. A
\* split {required, optional} object is truthy and not iterable.
Iterable(deps) == deps.form # "split"
DepList(deps) == IF deps.form = "flat" THEN deps.list ELSE <<>>

\* ----------------------------------------------------- topologicalSort

\* An error thrown out of topologicalSort (and so out of the pass).
MissingError(id, depId) == [kind |-> "missing", resource |-> id, dep |-> depId, unprocessed |-> <<>>]
CircularError(ids) == [kind |-> "circular", resource |-> "", dep |-> "", unprocessed |-> ids]
\* A TypeError raised by the runtime: iterating a non-iterable object, or
\* calling push on a value that has none.
TypeError(id, depId) == [kind |-> "TypeError", resource |-> id, dep |-> depId, unprocessed |-> <<>>]

\* `graph[depId]` read for truthiness on the plain object `graph`: an own key
\* holds an array (truthy); an inherited property is truthy as well.
GraphLookupTruthy(g, depId) == depId \in DOMAIN g \/ depId \in InheritedKeys

\* The inner loop over one resource's dependencies: push the edge
\* dependency -> dependent, count the dependent's in-degree.
RECURSIVE AddEdges(_, _, _)
AddEdges(id, deps, st) ==
  IF deps = <<>> \/ st.err.kind # "none" THEN st
  ELSE LET depId == Head(deps) IN
       IF ~GraphLookupTruthy(st.graph, depId)
       THEN [st EXCEPT !.err = MissingError(id, depId)]
       ELSE IF depId \notin DOMAIN st.graph
       THEN [st EXCEPT !.err = TypeError(id, depId)]
       ELSE AddEdges(id, Tail(deps),
                     [st EXCEPT !.graph[depId] = Append(@, id), !.inDegree[id] = @ + 1])

\* The outer loop over Object.entries(resources).
RECURSIVE BuildGraph(_, _, _)
BuildGraph(cfg, keys, st) ==
  IF keys = <<>> \/ st.err.kind # "none" THEN st
  ELSE LET id == Head(keys) IN
       IF ~Iterable(cfg[id].dependencies)
       THEN [st EXCEPT !.err = TypeError(id, "")]
       ELSE BuildGraph(cfg, Tail(keys), AddEdges(id, DepList(cfg[id].dependencies), st))

\* Release with the `=== 0` test lost: every dependent is pushed at once.
RECURSIVE Release_Eager(_, _, _)
Release_Eager(dependents, inDegree, queue) ==
  IF dependents = <<>> THEN [inDegree |-> inDegree, queue |-> queue]
  ELSE LET d == Head(dependents)
       IN Release_Eager(Tail(dependents), [inDegree EXCEPT ![d] = @ - 1], Append(queue, d))

\* The loop over graph[id]: decrement each dependent's in-degree and push the
\* ones that reach zero.
RECURSIVE Release(_, _, _)
Release(dependents, inDegree, queue) ==
  IF dependents = <<>> THEN [inDegree |-> inDegree, queue |-> queue]
  ELSE LET d == Head(dependents)
           n == inDegree[d] - 1
       IN Release(Tail(dependents), [inDegree EXCEPT ![d] = n],
                  IF n = 0 THEN Append(queue, d) ELSE queue)

\* Kahn's loop taking the id that was queued last (pop instead of shift).
RECURSIVE Kahn_Lifo(_, _, _, _)
Kahn_Lifo(queue, result, inDegree, graph) ==
  IF queue = <<>> THEN result
  ELSE LET id == queue[Len(queue)]
           r == Release(graph[id], inDegree, SubSeq(queue, 1, Len(queue) - 1))
       IN Kahn_Lifo(r.queue, Append(result, id), r.inDegree, graph)

\* The while loop of Kahn's algorithm: shift the queue, push to the result.
RECURSIVE Kahn(_, _, _, _)
Kahn(queue, result, inDegree, graph) ==
  IF queue = <<>> THEN result
  ELSE LET id == Head(queue)
           r == Release(graph[id], inDegree, Tail(queue))
       IN Kahn(r.queue, Append(result, id), r.inDegree, graph)

\* The result array when the while loop ends: the ids that could be ordered.
\* Called once the graph was built without an error.
partialResult(cfg) ==
  LET keys == KeysOf(cfg)
      st == BuildGraph(cfg, keys, [err |-> NoThrow, graph |-> [k \in DOMAIN cfg |-> <<>>],
                                   inDegree |-> [k \in DOMAIN cfg |-> 0]])
  IN Kahn(SelectSeq(keys, LAMBDA k : st.inDegree[k] = 0), <<>>, st.inDegree, st.graph)

\* topologicalSort whose circular-dependency error names every resource id.
topologicalSort_NamesAll(cfg) ==
  LET keys == KeysOf(cfg)
      st == BuildGraph(cfg, keys, [err |-> NoThrow, graph |-> [k \in DOMAIN cfg |-> <<>>],
                                   inDegree |-> [k \in DOMAIN cfg |-> 0]])
      result == Kahn(SelectSeq(keys, LAMBDA k : st.inDegree[k] = 0), <<>>,
                     st.inDegree, st.graph)
  IN IF st.err.kind # "none" THEN [err |-> st.err, order |-> <<>>]
     ELSE IF Len(result) # Len(keys)
     THEN [err |-> CircularError(keys), order |-> <<>>]
     ELSE [err |-> NoThrow, order |-> result]

\* topologicalSort that validates the ids and then returns the declaration
\* order, unsorted.
topologicalSort_Unsorted(cfg) ==
  LET keys == KeysOf(cfg)
      st == BuildGraph(cfg, keys, [err |-> NoThrow, graph |-> [k \in DOMAIN cfg |-> <<>>],
                                   inDegree |-> [k \in DOMAIN cfg |-> 0]])
  IN [err |-> st.err, order |-> IF st.err.kind = "none" THEN keys ELSE <<>>]

\* topologicalSort with the final length test lost: a cycle goes unnoticed and
\* the partial result is returned.
topologicalSort_NoCycleCheck(cfg) ==
  LET keys == KeysOf(cfg)
      st == BuildGraph(cfg, keys, [err |-> NoThrow, graph |-> [k \in DOMAIN cfg |-> <<>>],
                                   inDegree |-> [k \in DOMAIN cfg |-> 0]])
  IN IF st.err.kind # "none" THEN [err |-> st.err, order |-> <<>>]
     ELSE [err |-> NoThrow,
           order |-> Kahn(SelectSeq(keys, LAMBDA k : st.inDegree[k] = 0), <<>>,
                          st.inDegree, st.graph)]

\* topologicalSort whose queue is seeded last key first.
topologicalSort_SeedReversed(cfg) ==
  LET keys == KeysOf(cfg)
      st == BuildGraph(cfg, keys, [err |-> NoThrow, graph |-> [k \in DOMAIN cfg |-> <<>>],
                                   inDegree |-> [k \in DOMAIN cfg |-> 0]])
      queue == Reverse(SelectSeq(keys, LAMBDA k : st.inDegree[k] = 0))
      result == Kahn(queue, <<>>, st.inDegree, st.graph)
  IN IF st.err.kind # "none" THEN [err |-> st.err, order |-> <<>>]
     ELSE IF Len(result) # Len(keys)
     THEN [err |-> CircularError(SelectSeq(keys, LAMBDA k : k \notin Range(result))),
           order |-> <<>>]
     ELSE [err |-> NoThrow, order |-> result]

\* topologicalSort(resources): [err, order]; err.kind = "none" when it returns.
topologicalSort(cfg) ==
  LET keys == KeysOf(cfg)
      st0 == [err |-> NoThrow,
              graph |-> [k \in DOMAIN cfg |-> <<>>],
              inDegree |-> [k \in DOMAIN cfg |-> 0]]
      st == BuildGraph(cfg, keys, st0)
      queue == SelectSeq(keys, LAMBDA k : st.inDegree[k] = 0)
      result == Kahn(queue, <<>>, st.inDegree, st.graph)
  IN IF st.err.kind # "none" THEN [err |-> st.err, order |-> <<>>]
     ELSE IF Len(result) # Len(keys)
     THEN [err |-> CircularError(SelectSeq(keys, LAMBDA k : k \notin Range(result))),
           order |-> <<>>]
     ELSE [err |-> NoThrow, order |-> result]

\* ------------------------------------------------------- buildTopology

MaxOf(S) == CHOOSE m \in S : \A x \in S : x <= m

\* Object.entries(graph) flattened: <<id, dep>> for each id in key order and
\* each dep of graph[id] in list order.
RECURSIVE EdgePairs(_, _)
EdgePairs(graph, keys) ==
  IF keys = <<>> THEN <<>>
  ELSE [j \in 1..Len(graph[Head(keys)]) |-> <<Head(keys), graph[Head(keys)][j]>>]
       \o EdgePairs(graph, Tail(keys))

\* What arithmetic on a missing depth yields: Math.max over an undefined
\* entry is NaN, and NaN + 1 is NaN. Never a depth of a validated order.
NaN == -1

\* The depth loop taking the depth of the first dependency instead of the
\* deepest one.
RECURSIVE Depths_FirstDependency(_, _, _)
Depths_FirstDependency(order, graph, depths) ==
  IF order = <<>> THEN depths
  ELSE LET id == Head(order)
           deps == graph[id]
           d == IF Len(deps) = 0 THEN 0
                ELSE IF deps[1] \notin DOMAIN depths THEN NaN
                ELSE depths[deps[1]] + 1
       IN Depths_FirstDependency(Tail(order), graph, (id :> d) @@ depths)

\* The depth loop over `order`: 0 without dependencies, else max over them + 1.
RECURSIVE Depths(_, _, _)
Depths(order, graph, depths) ==
  IF order = <<>> THEN depths
  ELSE LET id == Head(order)
           deps == graph[id]
           known(dep) == dep \in DOMAIN depths /\ depths[dep] # NaN
           d == IF Len(deps) = 0 THEN 0
                ELSE IF \E j \in 1..Len(deps) : ~known(deps[j]) THEN NaN
                ELSE MaxOf({depths[deps[j]] : j \in 1..Len(deps)}) + 1
       IN Depths(Tail(order), graph, (id :> d) @@ depths)

\* The forward graph: resource -> its dependencies as declared.
ForwardGraph(cfg) == [id \in DOMAIN cfg |-> DepList(cfg[id].dependencies)]

\* The reverse graph filled under the wrong key: `dependents[id].push(dep)`.
Dependents_Forward(cfg, graph) == [d \in DOMAIN cfg |-> graph[d]]

\* The reverse graph: resource -> its dependents, pushed in the order the
\* entries of the forward graph are walked.
Dependents(cfg, graph) ==
  LET pairs == EdgePairs(graph, KeysOf(cfg))
  IN [d \in DOMAIN cfg |->
        LET ps == SelectSeq(pairs, LAMBDA p : p[2] = d)
        IN [j \in 1..Len(ps) |-> ps[j][1]]]

\* Math.max over Object.values(depths), 0 for an empty object.
MaxDepth(depths) ==
  IF DOMAIN depths = {} THEN 0
  ELSE IF \E k \in DOMAIN depths : depths[k] = NaN THEN NaN
  ELSE MaxOf({depths[k] : k \in DOMAIN depths})

\* One layer per depth 0..maxDepth (`depth <= maxDepth` is false for NaN: no
\* layer at all), each filtered out of Object.entries(depths), whose keys
\* were inserted in the order of `order`.
Layers(order, depths, maxDepth) ==
  LET entries == OwnKeys(order)
  IN [n \in 1..(IF maxDepth = NaN THEN 0 ELSE maxDepth + 1) |->
        [depth |-> n - 1,
         resources |-> SelectSeq(entries, LAMBDA k : depths[k] = n - 1)]]

\* buildTopology whose shutdown order is not reversed.
buildTopology_ShutdownForward(cfg, order) ==
  LET graph == ForwardGraph(cfg)
      depths == Depths(order, graph, <<>>)
  IN [layers |-> Layers(order, depths, MaxDepth(depths)), graph |-> graph,
      dependents |-> Dependents(cfg, graph), depths |-> depths,
      totalResources |-> Len(KeysOf(cfg)), maxDepth |-> MaxDepth(depths),
      startupOrder |-> order, shutdownOrder |-> order]

\* buildTopology(resources, order), called with a validated order.
buildTopology(cfg, order) ==
  LET graph == ForwardGraph(cfg)
      depths == Depths(order, graph, <<>>)
  IN [layers |-> Layers(order, depths, MaxDepth(depths)), graph |-> graph,
      dependents |-> Dependents(cfg, graph), depths |-> depths,
      totalResources |-> Len(KeysOf(cfg)), maxDepth |-> MaxDepth(depths),
      startupOrder |-> order, shutdownOrder |-> Reverse(order)]

NoTopology == [layers |-> <<>>, graph |-> <<>>, dependents |-> <<>>, depths |-> <<>>,
               totalResources |-> 0, maxDepth |-> 0,
               startupOrder |-> <<>>, shutdownOrder |-> <<>>]

\* ------------------------------------------------------ configurations

\* The dependency ids a configuration over the first n of `keys` may name.
Universe(keys, n) == {keys[j] : j \in 1..n} \cup Ghosts

\* Dependency specs that name exactly k ids: an absent spec or a flat list,
\* and, when split is allowed, a {required, optional} object.
DepSpecs(U, k, split) ==
  (IF k = 0 THEN {AbsentSpec} ELSE {FlatSpec(l) : l \in [1..k -> U]})
  \cup (IF split
        THEN UNION {{SplitSpec(r, o) : r \in [1..m -> U], o \in [1..(k - m) -> U]} : m \in 0..k}
        ELSE {})

\* The configuration as the mapping id -> definition.
AsConfig(keys, c) == [id \in {keys[j] : j \in 1..Len(c)} |-> c[IndexOf(keys, id)]]

\* ---------------------------------------------------------------- state

VARIABLES
  config,      \* the caller's system configuration: id -> definition
  pc,          \* where the caller and the pass in flight stand
  resources,   \* the pass's runtime entries: id -> [status, instance, error]
  started,     \* startSystem's `started`: id -> instance or undefined
  errors,      \* the pass's `errors` map: id -> error, NoError = no entry
  order,       \* the pass's `order`
  i,           \* position of the pass's for loop in `order`
  deps,        \* the dependency map handed to the assert/start in flight
  topology,    \* the topology built by the start pass
  thrown,      \* the error startSystem rejected with, NoThrow if none
  system,      \* the system mapping the start pass returned to the caller
  calls,       \* the resource operations invoked and settled in this pass
  second       \* the locals of a second call (startSystem(config), or haltSystem
               \* over the same started system), as a record

vars == <<config, pc, resources, started, errors, order, i, deps, topology,
          thrown, system, calls, second>>

Ids == DOMAIN config

Entry(status, instance, error) == [status |-> status, instance |-> instance, error |-> error]
\* One event of the log: operation op of resource id was invoked, returned,
\* threw an error, or threw a falsy value.
Call(op, id, ev) == [op |-> op, id |-> id, ev |-> ev]
Settled == {"returned", "threw", "threwFalsy"}

\* A wrapper error of startSystem: `Invalid dependencies for resource "<id>"`,
\* error.cause = the value the assertion threw.
InvalidDependencies(id) == [kind |-> "invalidDependencies", id |-> id, cause |-> "assert"]

\* The locals of a startSystem call that has not been made.
NoPass == [pc |-> "idle", resources |-> <<>>, started |-> <<>>, errors |-> <<>>,
           order |-> <<>>, i |-> 0, deps |-> <<>>, topology |-> NoTopology,
           thrown |-> NoThrow, system |-> <<>>, calls |-> <<>>]

\* The caller writes a configuration: `more` further resource definitions (a
\* dependency spec, an assert or none; start and halt are always there) after
\* those of `acc`, naming at most `budget` ids of U in all.
RECURSIVE Declare(_, _, _, _, _, _, _)
Declare(more, budget, keys, U, split, asserts, acc) ==
  IF more = 0 THEN config = AsConfig(keys, acc)
  ELSE \E k \in 0..budget : \E d \in DepSpecs(U, k, split) : \E h \in asserts :
         Declare(more - 1, budget - k, keys, U, split, asserts,
                 Append(acc, [dependencies |-> d, hasAssert |-> h]))

\* Configurations of 1..Len(keys) resources declared in the order of `keys`.
InitWith(keys, budget, split, asserts) ==
  /\ \E n \in 1..Len(keys) :
       Declare(n, budget, keys, Universe(keys, n), split, asserts, <<>>)
  /\ pc = "idle"
  /\ resources = <<>>
  /\ started = <<>>
  /\ errors = <<>>
  /\ order = <<>>
  /\ i = 0
  /\ deps = <<>>
  /\ topology = NoTopology
  /\ thrown = NoThrow
  /\ system = <<>>
  /\ calls = <<>>
  /\ second = NoPass

\* Configurations whose dependency specs are absent or flat lists.
Init == InitWith(PassKeys, MaxEdges, FALSE, BOOLEAN)
\* Configurations of one or two resources, for two calls side by side.
InitPair == InitWith(PairKeys, MaxPairEdges, FALSE, BOOLEAN)
\* Configurations that also hold split {required, optional} specs.
InitSplit == InitWith(PassKeys, MaxEdges, TRUE, BOOLEAN)
\* Configurations of up to four resources without assertions, for the sorter
\* and the topology builder.
InitSort == InitWith(SortKeys, MaxSortEdges, FALSE, {FALSE})

\* resolveDependencies that leaves out the dependencies that hold no instance.
resolveDependencies_OnlyStarted(resource, st) ==
  LET l == DepList(resource.dependencies)
  IN [d \in {x \in Range(l) : x \in DOMAIN st /\ st[x] # Undefined} |-> st[d]]

\* resolveDependencies that hands over null, not undefined, for a dependency
\* that holds no instance.
resolveDependencies_Null(resource, st) ==
  LET l == DepList(resource.dependencies)
  IN [d \in Range(l) |-> IF d \in DOMAIN st /\ st[d] # Undefined THEN st[d] ELSE "falsy"]

\* resolveDependencies(resource, started): every declared id mapped to
\* started[id], undefined when the key is unset or holds undefined.
resolveDependencies(resource, st) ==
  LET l == DepList(resource.dependencies)
  IN [d \in Range(l) |-> IF d \in DOMAIN st THEN st[d] ELSE Undefined]

\* ------------------------------------------------------------ startSystem

\* startSystem whose runtime entries are the definitions themselves
\* (`resources[id] = resourceConfig`, no copy): the status is written on the
\* caller's definitions.
startSystem_Begin_Aliased ==
  /\ pc = "idle"
  /\ config' = [id \in Ids |-> [dependencies |-> config[id].dependencies,
                                hasAssert |-> config[id].hasAssert,
                                status |-> "stopped"]]
  /\ LET sorted == topologicalSort(config) IN
       IF sorted.err.kind # "none"
       THEN /\ pc' = "startThrown"
            /\ thrown' = sorted.err
            /\ UNCHANGED <<resources, order, topology, i>>
       ELSE /\ pc' = "startLoop"
            /\ resources' = [id \in Ids |-> Entry("stopped", Undefined, NoError)]
            /\ order' = sorted.order
            /\ topology' = buildTopology(config, sorted.order)
            /\ i' = 1
            /\ UNCHANGED thrown
  /\ UNCHANGED <<second, started, errors, deps, system, calls>>

\* startSystem up to its loop: runtime entries, topologicalSort, buildTopology.
startSystem_Begin ==
  /\ pc = "idle"
  /\ LET sorted == topologicalSort(config) IN
       IF sorted.err.kind # "none"
       THEN /\ pc' = "startThrown"
            /\ thrown' = sorted.err
            /\ UNCHANGED <<resources, order, topology, i>>
       ELSE /\ pc' = "startLoop"
            /\ resources' = [id \in Ids |-> Entry("stopped", Undefined, NoError)]
            /\ order' = sorted.order
            /\ topology' = buildTopology(config, sorted.order)
            /\ i' = 1
            /\ UNCHANGED thrown
  /\ UNCHANGED <<second, config, started, errors, deps, system, calls>>

\* A catch block that gives up on the rest of the pass.
startSystem_Catch_Abort(id, err) ==
  /\ resources' = [resources EXCEPT ![id] = Entry("failed", @.instance, err)]
  /\ errors' = (id :> err) @@ errors
  /\ started' = (id :> Undefined) @@ started
  /\ i' = Len(order) + 1
  /\ pc' = "startLoop"

\* A catch block that marks the entry skipped instead of failed.
startSystem_Catch_Skipped(id, err) ==
  /\ resources' = [resources EXCEPT ![id] = Entry("skipped", @.instance, err)]
  /\ errors' = (id :> err) @@ errors
  /\ started' = (id :> Undefined) @@ started
  /\ i' = i + 1
  /\ pc' = "startLoop"

\* The catch block of the loop body.
startSystem_Catch(id, err) ==
  /\ resources' = [resources EXCEPT ![id] = Entry("failed", @.instance, err)]
  /\ errors' = (id :> err) @@ errors
  /\ started' = (id :> Undefined) @@ started
  /\ i' = i + 1
  /\ pc' = "startLoop"

\* One iteration that takes an absent dependency value for a failed
\* dependency: the resource is failed without any of its operations.
startSystem_Step_GateOnAbsent ==
  /\ pc = "startLoop"
  /\ i <= Len(order)
  /\ LET id == order[i]
         d == resolveDependencies(config[id], started)
     IN IF \E x \in DOMAIN d : d[x] = Undefined
        THEN /\ startSystem_Catch(id, [kind |-> "missingRequired", id |-> id, cause |-> "none"])
             /\ UNCHANGED <<deps, calls>>
        ELSE /\ resources' = [resources EXCEPT ![id].status = "starting"]
             /\ deps' = d
             /\ IF config[id].hasAssert
                THEN /\ calls' = Append(calls, Call("assert", id, "invoke"))
                     /\ pc' = "awaitAssert"
                ELSE /\ calls' = Append(calls, Call("start", id, "invoke"))
                     /\ pc' = "awaitStart"
             /\ UNCHANGED <<started, errors, i>>
  /\ UNCHANGED <<second, config, order, topology, thrown, system>>

\* One iteration up to its first await: mark starting, resolve the
\* dependencies, invoke assert when the definition has one, else start.
startSystem_Step ==
  /\ pc = "startLoop"
  /\ i <= Len(order)
  /\ LET id == order[i] IN
       /\ resources' = [resources EXCEPT ![id].status = "starting"]
       /\ deps' = resolveDependencies(config[id], started)
       /\ IF config[id].hasAssert
          THEN /\ calls' = Append(calls, Call("assert", id, "invoke"))
               /\ pc' = "awaitAssert"
          ELSE /\ calls' = Append(calls, Call("start", id, "invoke"))
               /\ pc' = "awaitStart"
  /\ UNCHANGED <<second, config, started, errors, order, i, topology, thrown, system>>

\* The assertion settles, and whatever it throws counts as a failure
\* (`errorDetected !== null`).
startSystem_AssertSettled_AnyThrow ==
  /\ pc = "awaitAssert"
  /\ LET id == order[i] IN
     \E outcome \in {"returned", "threw", "threwFalsy"} :
       IF outcome # "returned"
       THEN /\ calls' = Append(calls, Call("assert", id, outcome))
            /\ startSystem_Catch(id, InvalidDependencies(id))
            /\ UNCHANGED deps
       ELSE /\ calls' = calls \o <<Call("assert", id, outcome), Call("start", id, "invoke")>>
            /\ pc' = "awaitStart"
            /\ UNCHANGED <<resources, errors, started, i, deps>>
  /\ UNCHANGED <<second, config, order, topology, thrown, system>>

\* The assertion settles: it returns, or throws a truthy or a falsy value.
\* Only a truthy errorDetected is wrapped and thrown to the catch block.
startSystem_AssertSettled ==
  /\ pc = "awaitAssert"
  /\ LET id == order[i] IN
     \E outcome \in {"returned", "threw", "threwFalsy"} :
       IF outcome = "threw"
       THEN /\ calls' = Append(calls, Call("assert", id, outcome))
            /\ startSystem_Catch(id, InvalidDependencies(id))
            /\ UNCHANGED deps
       ELSE /\ calls' = calls \o <<Call("assert", id, outcome), Call("start", id, "invoke")>>
            /\ pc' = "awaitStart"
            /\ UNCHANGED <<resources, errors, started, i, deps>>
  /\ UNCHANGED <<second, config, order, topology, thrown, system>>

\* The start operation settles, and the instance is not put in `started`.
startSystem_StartSettled_NoRecord ==
  /\ pc = "awaitStart"
  /\ LET id == order[i] IN
       /\ \/ \E instance \in InstanceValues :
               /\ calls' = Append(calls, Call("start", id, "returned"))
               /\ resources' = [resources EXCEPT ![id] = Entry("started", instance, @.error)]
               /\ i' = i + 1
               /\ pc' = "startLoop"
               /\ UNCHANGED <<errors, started>>
          \/ /\ calls' = Append(calls, Call("start", id, "threw"))
             /\ startSystem_Catch(id, RawError("start", id))
  /\ UNCHANGED <<second, config, order, deps, topology, thrown, system>>

\* The start operation settles: it returns an instance or throws.
startSystem_StartSettled ==
  /\ pc = "awaitStart"
  /\ LET id == order[i] IN
       /\ \/ \E instance \in InstanceValues :
               /\ calls' = Append(calls, Call("start", id, "returned"))
               /\ resources' = [resources EXCEPT ![id] = Entry("started", instance, @.error)]
               /\ started' = (id :> instance) @@ started
               /\ i' = i + 1
               /\ pc' = "startLoop"
               /\ UNCHANGED errors
          \/ /\ calls' = Append(calls, Call("start", id, "threw"))
             /\ startSystem_Catch(id, RawError("start", id))
  /\ UNCHANGED <<second, config, order, deps, topology, thrown, system>>

\* startSystem that returns a topology without the resources that failed.
startSystem_Return_Pruned ==
  /\ pc = "startLoop"
  /\ i > Len(order)
  /\ pc' = "startReturned"
  /\ system' = [id \in Ids |-> IF id \in DOMAIN started THEN started[id] ELSE Undefined]
  /\ topology' = [topology EXCEPT
                    !.startupOrder = SelectSeq(@, LAMBDA id : id \notin DOMAIN errors),
                    !.shutdownOrder = SelectSeq(@, LAMBDA id : id \notin DOMAIN errors)]
  /\ UNCHANGED <<second, config, resources, started, errors, order, i, deps, thrown, calls>>

\* startSystem that gives up on a start operation that has not settled and
\* returns what it has.
startSystem_Return_Early ==
  /\ \/ pc = "startLoop" /\ i > Len(order)
     \/ pc = "awaitStart"
  /\ pc' = "startReturned"
  /\ system' = [id \in Ids |-> IF id \in DOMAIN started THEN started[id] ELSE Undefined]
  /\ UNCHANGED <<second, config, resources, started, errors, order, i, deps, topology, thrown, calls>>

\* The loop is over: startSystem returns {system: started, errors, topology}.
startSystem_Return ==
  /\ pc = "startLoop"
  /\ i > Len(order)
  /\ pc' = "startReturned"
  /\ system' = [id \in Ids |-> IF id \in DOMAIN started THEN started[id] ELSE Undefined]
  /\ UNCHANGED <<second, config, resources, started, errors, order, i, deps, topology, thrown, calls>>

\* ------------------------------------------------------------- haltSystem

\* The halt order with the reversal lost.
haltOrder_Forward(cfg) == [err |-> topologicalSort(cfg).err, order |-> topologicalSort(cfg).order]

\* `topologicalSort(resources).reverse()`.
haltOrder(cfg) ==
  LET sorted == topologicalSort(cfg)
  IN [err |-> sorted.err, order |-> Reverse(sorted.order)]

\* haltSystem(config, system) up to its loop. The start pass's locals are
\* gone; the halt pass has its own entries, errors and order.
haltSystem_Begin ==
  /\ pc = "startReturned"
  /\ haltOrder(config).err.kind = "none"
  /\ order' = haltOrder(config).order
  /\ resources' = [id \in Ids |-> Entry("started", system[id], NoError)]
  /\ errors' = <<>>
  /\ started' = <<>>
  /\ deps' = <<>>
  /\ calls' = <<>>
  /\ i' = 1
  /\ pc' = "haltLoop"
  /\ UNCHANGED <<second, config, topology, thrown, system>>

\* One iteration with the await lost: the halt is invoked and the loop moves on.
haltSystem_Step_NoAwait ==
  /\ pc = "haltLoop"
  /\ i <= Len(order)
  /\ LET id == order[i] IN
       IF Truthy(resources[id].instance) /\ resources[id].status = "started"
       THEN /\ resources' = [resources EXCEPT ![id].status = "halting"]
            /\ calls' = Append(calls, Call("halt", id, "invoke"))
       ELSE UNCHANGED <<resources, calls>>
  /\ i' = i + 1
  /\ UNCHANGED <<second, config, pc, started, errors, order, deps, topology, thrown, system>>

\* One iteration that does not move on from an entry it has nothing to halt for.
haltSystem_Step_NoAdvance ==
  /\ pc = "haltLoop"
  /\ i <= Len(order)
  /\ LET id == order[i] IN
       IF Truthy(resources[id].instance) /\ resources[id].status = "started"
       THEN /\ resources' = [resources EXCEPT ![id].status = "halting"]
            /\ calls' = Append(calls, Call("halt", id, "invoke"))
            /\ pc' = "awaitHalt"
            /\ UNCHANGED i
       ELSE UNCHANGED <<resources, calls, pc, i>>
  /\ UNCHANGED <<second, config, started, errors, order, deps, topology, thrown, system>>

\* One iteration up to its await: a truthy instance of a started entry is
\* marked halting and its halt invoked; any other entry is passed over.
haltSystem_Step ==
  /\ pc = "haltLoop"
  /\ i <= Len(order)
  /\ LET id == order[i] IN
       IF Truthy(resources[id].instance) /\ resources[id].status = "started"
       THEN /\ resources' = [resources EXCEPT ![id].status = "halting"]
            /\ calls' = Append(calls, Call("halt", id, "invoke"))
            /\ pc' = "awaitHalt"
            /\ UNCHANGED i
       ELSE /\ i' = i + 1
            /\ UNCHANGED <<resources, calls, pc>>
  /\ UNCHANGED <<second, config, started, errors, order, deps, topology, thrown, system>>

\* The halt operation settles: it returns, or throws and the error is recorded.
haltSystem_HaltSettled ==
  /\ pc = "awaitHalt"
  /\ LET id == order[i] IN
       /\ \/ /\ calls' = Append(calls, Call("halt", id, "returned"))
             /\ resources' = [resources EXCEPT ![id] = Entry("stopped", Undefined, @.error)]
             /\ UNCHANGED errors
          \/ /\ calls' = Append(calls, Call("halt", id, "threw"))
             /\ errors' = (id :> RawError("halt", id)) @@ errors
             /\ UNCHANGED resources
  /\ i' = i + 1
  /\ pc' = "haltLoop"
  /\ UNCHANGED <<second, config, started, order, deps, topology, thrown, system>>

\* The loop is over: haltSystem returns {errors}.
haltSystem_Return ==
  /\ pc = "haltLoop"
  /\ i > Len(order)
  /\ pc' = "haltReturned"
  /\ UNCHANGED <<second, config, resources, started, errors, order, i, deps, topology,
                 thrown, system, calls>>

\* ------------------------------------------- a second startSystem call

\* The locals of the first call and of the pass after it.
firstCall == <<pc, resources, started, errors, order, i, deps, topology, thrown,
               system, calls>>

\* The catch block of the loop body, on the second call's locals.
startSystem2_Catch(p, id, err) ==
  [p EXCEPT !.resources[id] = Entry("failed", @.instance, err),
            !.errors = (id :> err) @@ @,
            !.started = (id :> Undefined) @@ @,
            !.i = @ + 1,
            !.pc = "startLoop"]

\* The second call up to its loop.
startSystem2_Begin ==
  /\ second.pc = "idle"
  /\ LET sorted == topologicalSort(config) IN
       second' = IF sorted.err.kind # "none"
                 THEN [second EXCEPT !.pc = "startThrown", !.thrown = sorted.err]
                 ELSE [second EXCEPT
                         !.pc = "startLoop",
                         !.resources = [id \in Ids |-> Entry("stopped", Undefined, NoError)],
                         !.order = sorted.order,
                         !.topology = buildTopology(config, sorted.order),
                         !.i = 1]
  /\ UNCHANGED <<config, firstCall>>

\* A second call that keeps its instances in the first call's `started`.
startSystem2_StartSettled_SharedStarted ==
  /\ second.pc = "awaitStart"
  /\ LET id == second.order[second.i] IN
       \/ \E instance \in InstanceValues :
            /\ second' = [second EXCEPT
                  !.calls = Append(@, Call("start", id, "returned")),
                  !.resources[id] = Entry("started", instance, @.error),
                  !.i = @ + 1,
                  !.pc = "startLoop"]
            /\ started' = (id :> instance) @@ started
            /\ UNCHANGED <<config, pc, resources, errors, order, i, deps, topology,
                           thrown, system, calls>>
       \/ /\ second' = startSystem2_Catch(
                          [second EXCEPT !.calls = Append(@, Call("start", id, "threw"))],
                          id, RawError("start", id))
          /\ UNCHANGED <<config, firstCall>>

\* One iteration of the second call up to its first await.
startSystem2_Step ==
  /\ second.pc = "startLoop"
  /\ second.i <= Len(second.order)
  /\ LET id == second.order[second.i] IN
       second' = [second EXCEPT
         !.resources[id].status = "starting",
         !.deps = resolveDependencies(config[id], second.started),
         !.calls = Append(@, Call(IF config[id].hasAssert THEN "assert" ELSE "start",
                                  id, "invoke")),
         !.pc = IF config[id].hasAssert THEN "awaitAssert" ELSE "awaitStart"]
  /\ UNCHANGED <<config, firstCall>>

\* The assertion of the second call settles.
startSystem2_AssertSettled ==
  /\ second.pc = "awaitAssert"
  /\ LET id == second.order[second.i] IN
     \E outcome \in {"returned", "threw", "threwFalsy"} :
       second' =
         IF outcome = "threw"
         THEN startSystem2_Catch(
                [second EXCEPT !.calls = Append(@, Call("assert", id, outcome))],
                id, InvalidDependencies(id))
         ELSE [second EXCEPT
                 !.calls = @ \o <<Call("assert", id, outcome), Call("start", id, "invoke")>>,
                 !.pc = "awaitStart"]
  /\ UNCHANGED <<config, firstCall>>

\* The start operation of the second call settles.
startSystem2_StartSettled ==
  /\ second.pc = "awaitStart"
  /\ LET id == second.order[second.i] IN
       \/ \E instance \in InstanceValues :
            second' = [second EXCEPT
              !.calls = Append(@, Call("start", id, "returned")),
              !.resources[id] = Entry("started", instance, @.error),
              !.started = (id :> instance) @@ @,
              !.i = @ + 1,
              !.pc = "startLoop"]
       \/ second' = startSystem2_Catch(
                       [second EXCEPT !.calls = Append(@, Call("start", id, "threw"))],
                       id, RawError("start", id))
  /\ UNCHANGED <<config, firstCall>>

\* The second call returns {system: started, errors, topology}.
startSystem2_Return ==
  /\ second.pc = "startLoop"
  /\ second.i > Len(second.order)
  /\ second' = [second EXCEPT
       !.pc = "startReturned",
       !.system = [id \in Ids |-> IF id \in DOMAIN second.started
                                  THEN second.started[id] ELSE Undefined]]
  /\ UNCHANGED <<config, firstCall>>

\* ---------------------------------------------- a second haltSystem call

\* haltSystem(config, system) called again with the same started system, once
\* the first halt pass has returned: its own entries, errors and order.
haltSystem2_Begin ==
  /\ pc = "haltReturned"
  /\ second.pc = "idle"
  /\ haltOrder(config).err.kind = "none"
  /\ second' = [second EXCEPT
       !.pc = "haltLoop",
       !.order = haltOrder(config).order,
       !.resources = [id \in Ids |-> Entry("started", system[id], NoError)],
       !.i = 1]
  /\ UNCHANGED <<config, firstCall>>

\* One iteration of the second halt pass up to its await.
haltSystem2_Step ==
  /\ second.pc = "haltLoop"
  /\ second.i <= Len(second.order)
  /\ LET id == second.order[second.i] IN
       second' =
         IF Truthy(second.resources[id].instance) /\ second.resources[id].status = "started"
         THEN [second EXCEPT
                 !.resources[id].status = "halting",
                 !.calls = Append(@, Call("halt", id, "invoke")),
                 !.pc = "awaitHalt"]
         ELSE [second EXCEPT !.i = @ + 1]
  /\ UNCHANGED <<config, firstCall>>

\* The halt operation of the second halt pass settles.
haltSystem2_HaltSettled ==
  /\ second.pc = "awaitHalt"
  /\ LET id == second.order[second.i] IN
       \/ second' = [second EXCEPT
            !.calls = Append(@, Call("halt", id, "returned")),
            !.resources[id] = Entry("stopped", Undefined, @.error),
            !.i = @ + 1,
            !.pc = "haltLoop"]
       \/ second' = [second EXCEPT
            !.calls = Append(@, Call("halt", id, "threw")),
            !.errors = (id :> RawError("halt", id)) @@ @,
            !.i = @ + 1,
            !.pc = "haltLoop"]
  /\ UNCHANGED <<config, firstCall>>

\* The second halt pass returns {errors}.
haltSystem2_Return ==
  /\ second.pc = "haltLoop"
  /\ second.i > Len(second.order)
  /\ second' = [second EXCEPT !.pc = "haltReturned"]
  /\ UNCHANGED <<config, firstCall>>

Next ==
  \/ startSystem_Begin
  \/ startSystem_Step
  \/ startSystem_AssertSettled
  \/ startSystem_StartSettled
  \/ startSystem_Return
  \/ haltSystem_Begin
  \/ haltSystem_Step
  \/ haltSystem_HaltSettled
  \/ haltSystem_Return

Spec == Init /\ [][Next]_vars
SpecSplit == InitSplit /\ [][Next]_vars

\* The passes under the hypothesis that every invoked operation settles, the
\* orchestrator running whenever it can (the caller alone decides whether a
\* pass begins).
Fairness ==
  /\ WF_vars(startSystem_Step)
  /\ WF_vars(startSystem_AssertSettled)
  /\ WF_vars(startSystem_StartSettled)
  /\ WF_vars(startSystem_Return)
  /\ WF_vars(haltSystem_Step)
  /\ WF_vars(haltSystem_HaltSettled)
  /\ WF_vars(haltSystem_Return)
SpecLive == Init /\ [][Next]_vars /\ Fairness

\* Two calls side by side: a start pass and the halt pass after it, and a
\* second start pass over the same configuration, in any interleaving.
NextPair ==
  \/ Next
  \/ startSystem2_Begin
  \/ startSystem2_Step
  \/ startSystem2_AssertSettled
  \/ startSystem2_StartSettled
  \/ startSystem2_Return
SpecPair == InitPair /\ [][NextPair]_vars

\* A start pass, the halt pass after it, and a second halt pass over the same
\* configuration and the same started system.
NextAgain ==
  \/ Next
  \/ haltSystem2_Begin
  \/ haltSystem2_Step
  \/ haltSystem2_HaltSettled
  \/ haltSystem2_Return
SpecAgain == Init /\ [][NextAgain]_vars

\* The sorter and the topology builder alone: startSystem up to its loop.
NextSort == startSystem_Begin
SpecSort == InitSort /\ [][NextSort]_vars

\* ------------------------------------------------- vocabulary of the claims

StartPcs == {"startLoop", "awaitAssert", "awaitStart", "startReturned"}
HaltPcs == {"haltLoop", "awaitHalt", "haltReturned"}

\* The dependency ids a resource declares: required and optional alike.
DeclaredDeps(id) == Range(normalizeDependencies(config[id].dependencies).all)
RequiredDeps(id) == Range(normalizeDependencies(config[id].dependencies).required)
OptionalDeps(id) == Range(normalizeDependencies(config[id].dependencies).optional)
FlatDeps(id) == IF config[id].dependencies.form = "flat"
                THEN Range(config[id].dependencies.list) ELSE {}

RECURSIVE ReachFrom(_, _)
ReachFrom(S, n) ==
  IF n = 0 THEN S
  ELSE ReachFrom(S \cup UNION {DeclaredDeps(x) : x \in S \cap Ids}, n - 1)
\* The ids b depends on, directly or transitively.
TransDeps(b) == ReachFrom(DeclaredDeps(b), Cardinality(Ids))

AllDepsExist == \A id \in Ids : DeclaredDeps(id) \subseteq Ids
HasCycle == \E id \in Ids : id \in TransDeps(id)

Happened(op, id, ev) == \E k \in 1..Len(calls) : calls[k] = Call(op, id, ev)
Count(op, id, ev) == Cardinality({k \in 1..Len(calls) : calls[k] = Call(op, id, ev)})
HasError(id) == id \in DOMAIN errors
Failed(id) == resources[id].status = "failed"

\* ------------------------------------------------------------------ claims

\* C1: for a configuration whose dependency graph is acyclic and whose declared
\* dependency ids all exist, topologicalSort returns every resource id exactly
\* once with every dependency before its dependents, and this is the order
\* the start pass uses.
C1_TopologicalOrder ==
  (AllDepsExist /\ ~HasCycle) =>
    LET r == topologicalSort(config) IN
      /\ r.err.kind = "none"
      /\ Len(r.order) = Cardinality(Ids)
      /\ Range(r.order) = Ids
      /\ \A id \in Ids : \A dep \in DeclaredDeps(id) :
           IndexOf(r.order, dep) < IndexOf(r.order, id)
      /\ (pc # "idle" => thrown = NoThrow)
      /\ (pc \in StartPcs => order = r.order)

\* A start pass that ran over a chain declared dependents first.
C1_Witness ==
  /\ pc = "startReturned"
  /\ Ids = {"a", "b", "c"}
  /\ "b" \in DeclaredDeps("a") /\ "c" \in DeclaredDeps("b")
  /\ order = <<"c", "b", "a">>

\* C2: in a start pass, when an assertion or start operation of B is invoked,
\* every A that B depends on (directly or transitively) is over: an operation
\* of A settled earlier, A is started or failed, and nothing of A comes later.
C2_StartAfterDependencies ==
  pc \in StartPcs =>
    \A k \in 1..Len(calls) :
      calls[k].ev = "invoke" =>
        \A A \in TransDeps(calls[k].id) :
          /\ \E j \in 1..(k - 1) : calls[j].id = A /\ calls[j].ev \in Settled
          /\ \A j \in k..Len(calls) : calls[j].id # A
          /\ resources[A].status \in {"started", "failed"}

\* The start of c was invoked in a chain c -> b -> a.
C2_Witness ==
  /\ pc = "startReturned"
  /\ Ids = {"a", "b", "c"}
  /\ "a" \in TransDeps("c") /\ "a" \notin DeclaredDeps("c")
  /\ Happened("start", "a", "threw")
  /\ Happened("start", "c", "invoke")

\* The ids whose halt operation was invoked, in order of invocation.
HaltInvoked ==
  LET inv == SelectSeq(calls, LAMBDA c : c.op = "halt" /\ c.ev = "invoke")
  IN [k \in 1..Len(inv) |-> inv[k].id]

\* C3: in a halt pass over the system a start pass returned, when the halt of
\* A is invoked every B that depends on A is over (its halt, if its instance
\* called for one, has settled and nothing of B comes later); the halts are
\* invoked in the reverse of the startup order.
C3_HaltBeforeDependencies ==
  pc \in HaltPcs =>
    /\ \A k \in 1..Len(calls) :
         calls[k].ev = "invoke" =>
           \A B \in Ids :
             calls[k].id \in TransDeps(B) =>
               /\ \A j \in k..Len(calls) : calls[j].id # B
               /\ Truthy(system[B]) =>
                    \E j \in 1..(k - 1) : calls[j].id = B /\ calls[j].ev \in Settled
    /\ \A k1, k2 \in 1..Len(HaltInvoked) :
         k1 < k2 => IndexOf(Reverse(topology.startupOrder), HaltInvoked[k1])
                    < IndexOf(Reverse(topology.startupOrder), HaltInvoked[k2])

\* Scenario E: the chain a, b deps [a], c deps [b] halted as c, b, a.
C3_Witness ==
  /\ pc = "haltReturned"
  /\ Ids = {"a", "b", "c"}
  /\ "a" \in DeclaredDeps("b") /\ "b" \in DeclaredDeps("c")
  /\ HaltInvoked = <<"c", "b", "a">>

\* C4 as claimed: a configuration whose dependency graph has a cycle makes the
\* start pass raise the circular-dependency error before any operation.
C4_CycleRaisesCircular ==
  (HasCycle /\ pc # "idle") =>
    /\ pc = "startThrown"
    /\ thrown.kind = "circular"
    /\ calls = <<>> /\ system = <<>> /\ errors = <<>>

\* C4 as amended: a configuration whose dependency graph has a cycle makes
\* the start pass raise an error before any assertion or start operation and
\* return no system and no errors; the error is the circular-dependency error
\* when every declared dependency id exists.
C4_CycleRejected ==
  (HasCycle /\ pc # "idle") =>
    /\ pc = "startThrown"
    /\ thrown.kind # "none"
    /\ AllDepsExist => thrown.kind = "circular"
    /\ calls = <<>> /\ system = <<>> /\ errors = <<>>

\* A resource that lists itself was rejected as circular.
C4_Witness ==
  /\ pc = "startThrown"
  /\ \E id \in Ids : id \in DeclaredDeps(id)
  /\ thrown.kind = "circular"

\* C5: a configuration that declares a dependency id that is no key of it
\* makes the start pass raise an error naming the declaring resource and the
\* missing id, with no start operation invoked.
C5_MissingDependencyNamed ==
  (~AllDepsExist /\ pc # "idle") =>
    /\ pc = "startThrown"
    /\ thrown.kind = "missing"
    /\ thrown.resource \in Ids
    /\ thrown.dep \in DeclaredDeps(thrown.resource) \ Ids
    /\ calls = <<>>

\* C6: a resource with a failed required dependency ends failed, its start
\* never invoked, its instance absent, its error naming the dependency.
C6_RequiredDependencyBlocks ==
  pc = "startReturned" =>
    \A B \in Ids : \A A \in RequiredDeps(B) :
      Failed(A) =>
        /\ Failed(B)
        /\ ~Happened("start", B, "invoke")
        /\ system[B] = Undefined
        /\ HasError(B) /\ errors[B].kind = "missingRequired"

\* C7: a resource whose optional dependency failed still has its start
\* invoked, with undefined for that dependency, and ends started with no
\* error of its own; so a start pass over a well-formed configuration that
\* declares an optional dependency is not rejected.
C7_OptionalDependencyTolerated ==
  \A B \in Ids : \A A \in OptionalDeps(B) \ RequiredDeps(B) :
    /\ (AllDepsExist /\ ~HasCycle /\ pc # "idle") => pc # "startThrown"
    /\ (pc = "awaitStart" /\ order[i] = B /\ Failed(A)) =>
         (A \in DOMAIN deps /\ deps[A] = Undefined)
    /\ (pc = "startReturned" /\ Failed(A)) =>
         /\ Happened("start", B, "invoke") \/ Happened("assert", B, "threw")
         /\ Happened("start", B, "returned") =>
              (resources[B].status = "started" /\ ~HasError(B))

C9_FailureIsolation ==
  pc = "startReturned" =>
    /\ \A F \in Ids :
         Happened("start", F, "threw") =>
           (HasError(F) /\ errors[F] = RawError("start", F) /\ system[F] = Undefined)
    /\ \A R \in Ids :
         (\A F \in TransDeps(R) : ~Failed(F)) =>
           /\ Happened("start", R, "invoke") \/ Happened("assert", R, "threw")
           /\ Happened("start", R, "returned") =>
                (resources[R].status = "started" /\ ~HasError(R))

\* a failed first; b, unrelated and later in the order, started.
C9_Witness ==
  /\ pc = "startReturned"
  /\ {"a", "b"} \subseteq Ids
  /\ order[1] = "a" /\ Happened("start", "a", "threw")
  /\ "a" \notin TransDeps("b")
  /\ Happened("start", "b", "invoke") /\ resources["b"].status = "started"

\* C10: in a halt pass every resource with a present instance has its halt
\* invoked exactly once, whatever other halts did, and the error map holds
\* exactly the ids whose halt failed.
C10_HaltIsolation ==
  pc = "haltReturned" =>
    /\ \A id \in Ids : system[id] # Undefined => Count("halt", id, "invoke") = 1
    /\ DOMAIN errors = {id \in Ids : Happened("halt", id, "threw")}

\* The operations in flight after the first n events of the pass: invoked
\* and not yet settled.
Unsettled(n) ==
  {k \in 1..n : /\ calls[k].ev = "invoke"
                /\ ~\E j \in (k + 1)..n : /\ calls[j].op = calls[k].op
                                          /\ calls[j].id = calls[k].id
                                          /\ calls[j].ev \in Settled}

\* C11: within a start pass or a halt pass at most one resource operation is
\* in flight at any time, and an operation is invoked only when every
\* operation invoked before it has settled.
C11_OneOperationInFlight ==
  \A n \in 1..Len(calls) :
    /\ Cardinality(Unsettled(n)) <= 1
    /\ calls[n].ev = "invoke" => Unsettled(n - 1) = {}

\* A halt pass is over in which two unrelated resources of the same depth
\* were both halted, after a start pass that started both.
C11_Witness ==
  /\ pc = "haltReturned"
  /\ {"a", "b"} \subseteq Ids
  /\ DeclaredDeps("a") = {} /\ DeclaredDeps("b") = {}
  /\ Happened("halt", "a", "returned") /\ Happened("halt", "b", "returned")

\* C12: a resource whose assertion failed never has its start invoked, ends
\* failed with an absent instance and an `Invalid dependencies` wrapper whose
\* cause is what the assertion threw; no other resource gains an error by it.
C12_AssertionFailureBlocksStart ==
  pc = "startReturned" =>
    /\ \A id \in Ids :
         (Happened("assert", id, "threw") \/ Happened("assert", id, "threwFalsy")) =>
           /\ ~Happened("start", id, "invoke")
           /\ Failed(id) /\ system[id] = Undefined
           /\ HasError(id) /\ errors[id] = InvalidDependencies(id)
    /\ \A id \in DOMAIN errors :
         \/ Happened("assert", id, "threw") \/ Happened("assert", id, "threwFalsy")
         \/ Happened("start", id, "threw")

\* C13: a resource with a failed required dependency is marked failed
\* without its assertion or its start being invoked.
C13_RequiredFailureSkipsAssertion ==
  pc = "startReturned" =>
    \A B \in Ids : \A A \in RequiredDeps(B) :
      Failed(A) =>
        /\ Failed(B)
        /\ ~Happened("assert", B, "invoke")
        /\ ~Happened("start", B, "invoke")

\* C14: when a required dependency failed and the dependent's assertion throws
\* on the absent value, both have error entries, the dependent's start is not
\* invoked and its error is a `Missing required dependencies` error whose
\* cause is what the assertion threw.
C14_MissingRequiredWrapsAssertion ==
  pc = "startReturned" =>
    \A B \in Ids : \A A \in RequiredDeps(B) :
      (Happened("start", A, "threw") /\ Happened("assert", B, "threw")) =>
        /\ HasError(A) /\ HasError(B)
        /\ ~Happened("start", B, "invoke")
        /\ errors[B].kind = "missingRequired"
        /\ errors[B].cause = "assert"

\* C15: failure cascades along required dependencies (b requires a, c
\* requires b, a's start fails: b and c are failed and never started) and
\* stops at an optional one (c starts with undefined for b, without error).
C15_FailureCascades ==
  pc = "startReturned" =>
    \A A, B, C \in Ids :
      (A \in RequiredDeps(B) /\ Happened("start", A, "threw")) =>
        /\ Failed(B) /\ ~Happened("start", B, "invoke")
        /\ B \in RequiredDeps(C) =>
             (Failed(C) /\ ~Happened("start", C, "invoke"))
        /\ B \in OptionalDeps(C) \ RequiredDeps(C) =>
             /\ Happened("start", C, "invoke")
             /\ HasError(A) /\ HasError(B) /\ ~Happened("assert", C, "threw") => ~HasError(C)

\* Position of id in the declaration order of the configuration.
Decl(id) == IndexOf(KeysOf(config), id)
\* Position of id in the startup order.
Pos(id) == IndexOf(order, id)
\* When id became ready: the position in the startup order of the last of
\* its dependencies, 0 when it has none.
ReadyAt(id) == MaxOf({Pos(d) : d \in DeclaredDeps(id)} \cup {0})
\* x was queued before y: it became ready earlier, or at the same moment and
\* is declared earlier.
QueuedBefore(x, y) ==
  \/ ReadyAt(x) < ReadyAt(y)
  \/ ReadyAt(x) = ReadyAt(y) /\ Decl(x) < Decl(y)
Unrelated(x, y) == x # y /\ x \notin TransDeps(y) /\ y \notin TransDeps(x)

\* C16: in the startup order of an acyclic configuration two resources of
\* the same depth stand in their declaration order.
C16_SameDepthDeclarationOrder ==
  pc = "startLoop" =>
    \A x, y \in Ids :
      (topology.depths[x] = topology.depths[y] /\ Decl(x) < Decl(y)) => Pos(x) < Pos(y)

\* C16 as amended: two resources of the same depth stand in the order in
\* which they became ready: the one whose last dependency comes earlier in
\* the startup order first, and in declaration order when both have no
\* dependencies or the same last dependency.
C16_SameDepthReadyOrder ==
  pc = "startLoop" =>
    \A x, y \in Ids :
      (x # y /\ topology.depths[x] = topology.depths[y]) =>
        (Pos(x) < Pos(y) <=> QueuedBefore(x, y))

\* a (on 2) is declared before b (on 1), both of depth 1, and starts after it.
C16_Witness ==
  /\ pc = "startLoop"
  /\ Ids = {"1", "2", "a", "b"}
  /\ DeclaredDeps("a") = {"2"} /\ DeclaredDeps("b") = {"1"}
  /\ topology.depths["a"] = topology.depths["b"]
  /\ order = <<"1", "2", "b", "a">>

\* C17: in the startup order of an acyclic configuration two resources with
\* no dependency path between them stand in their declaration order.
C17_UnrelatedDeclarationOrder ==
  pc = "startLoop" =>
    \A x, y \in Ids : (Unrelated(x, y) /\ Decl(x) < Decl(y)) => Pos(x) < Pos(y)

\* C17 as amended: two resources with no dependency path between them stand
\* in the order in which they became ready (declaration order only when both
\* have no dependencies or the same last dependency).
C17_UnrelatedReadyOrder ==
  pc = "startLoop" =>
    \A x, y \in Ids : Unrelated(x, y) => (Pos(x) < Pos(y) <=> QueuedBefore(x, y))

\* 1 depends on a; 2, unrelated to 1 and declared after it, starts before it.
C17_Witness ==
  /\ pc = "startLoop"
  /\ {"1", "2", "a"} \subseteq Ids
  /\ DeclaredDeps("1") = {"a"} /\ Unrelated("1", "2")
  /\ Pos("2") < Pos("1")

\* The ids the start pass has attempted, in the order of their first
\* operation: the assertion when there is one, else the start.
Attempted ==
  LET first == SelectSeq(calls, LAMBDA c :
                 /\ c.ev = "invoke"
                 /\ c.op = (IF config[c.id].hasAssert THEN "assert" ELSE "start"))
  IN [k \in 1..Len(first) |-> first[k].id]

\* C18: in the topology the start pass builds and returns, shutdownOrder is
\* startupOrder read backwards, and startupOrder is the order in which the
\* start pass attempts the resources.
C18_ShutdownReversesStartup ==
  pc \in StartPcs \cup HaltPcs =>
    LET up == topology.startupOrder
        down == topology.shutdownOrder
    IN /\ Len(down) = Len(up)
       /\ \A k \in 1..Len(up) : down[k] = up[Len(up) + 1 - k]
       /\ pc \in StartPcs =>
            /\ Len(Attempted) <= Len(up)
            /\ \A k \in 1..Len(Attempted) : Attempted[k] = up[k]
       /\ pc = "startReturned" => Attempted = up

\* The start pass returned the topology of a chain declared dependents first.
C18_Witness ==
  /\ pc = "startReturned"
  /\ Ids = {"a", "b", "c"}
  /\ "b" \in DeclaredDeps("a") /\ "c" \in DeclaredDeps("b")
  /\ topology.startupOrder = <<"c", "b", "a">>
  /\ topology.shutdownOrder = <<"a", "b", "c">>
  /\ Attempted = <<"c", "b", "a">>

\* C19: depths[id] is 0 for an id without dependencies, else 1 + the largest
\* depth among its declared dependencies; maxDepth is the largest depth.
C19_DepthEquation ==
  pc = "startLoop" =>
    /\ DOMAIN topology.depths = Ids
    /\ \A id \in Ids :
         /\ DeclaredDeps(id) = {} => topology.depths[id] = 0
         /\ DeclaredDeps(id) # {} =>
              /\ \A d \in DeclaredDeps(id) : topology.depths[id] >= topology.depths[d] + 1
              /\ \E d \in DeclaredDeps(id) : topology.depths[id] = topology.depths[d] + 1
    /\ \A id \in Ids : topology.depths[id] <= topology.maxDepth
    /\ \E id \in Ids : topology.depths[id] = topology.maxDepth

\* b depends on the root 1 and then on a, which depends on 2: depths 0, 1, 2.
C19_Witness ==
  /\ pc = "startLoop"
  /\ Ids = {"1", "2", "a", "b"}
  /\ config["b"].dependencies = FlatSpec(<<"1", "a">>)
  /\ topology.depths["1"] = 0 /\ topology.depths["a"] = 1 /\ topology.depths["b"] = 2
  /\ topology.maxDepth = 2

\* C20: the layers partition the ids by depth: one layer per depth
\* 0..maxDepth, ascending; each id exactly once, in the layer of its depth;
\* within a layer the ids stand as in the startup order.
C20_LayersPartitionByDepth ==
  pc = "startLoop" =>
    LET L == topology.layers IN
      /\ Len(L) = topology.maxDepth + 1
      /\ \A n \in 1..Len(L) :
           /\ L[n].depth = n - 1
           /\ Range(L[n].resources) = {id \in Ids : topology.depths[id] = n - 1}
           /\ Len(L[n].resources) = Cardinality(Range(L[n].resources))
           /\ \A j, k \in 1..Len(L[n].resources) :
                j < k => Pos(L[n].resources[j]) < Pos(L[n].resources[k])

\* The status changes of a start pass and of a halt pass.
StartTransitions == {<<"stopped", "starting">>, <<"starting", "started">>,
                     <<"starting", "failed">>}
HaltTransitions == {<<"started", "halting">>, <<"halting", "stopped">>}

\* C22: within one pass every status change of an entry is stopped->starting,
\* starting->started or starting->failed (start pass), started->halting or
\* halting->stopped (halt pass): no entry re-enters starting or leaves failed;
\* and no entry is ever skipped.
C22_StatusTransitions ==
  /\ [](\A id \in DOMAIN resources : resources[id].status # "skipped")
  /\ [][\A id \in DOMAIN resources :
          (id \in DOMAIN resources' /\ resources'[id].status # resources[id].status) =>
            \/ /\ pc \in StartPcs /\ pc' \in StartPcs
               /\ <<resources[id].status, resources'[id].status>> \in StartTransitions
            \/ /\ pc \in HaltPcs /\ pc' \in HaltPcs
               /\ <<resources[id].status, resources'[id].status>> \in HaltTransitions
            \/ pc = "startReturned" /\ pc' = "haltLoop"]_vars

\* A halt pass is over in which a was halted and b, which had failed to
\* start, was passed over.
C22_Witness ==
  /\ pc = "haltReturned"
  /\ {"a", "b"} \subseteq Ids
  /\ resources["a"].status = "stopped" /\ Happened("halt", "a", "returned")
  /\ system["b"] = Undefined /\ ~Happened("halt", "b", "invoke")

\* C24: for every dependency spec, normalizeDependencies returns `all` =
\* required then optional with every id at its first occurrence only (so no
\* id twice); a flat list gives required = the list and optional empty; an
\* absent spec gives three empty lists.
C24_NormalizedAll ==
  \A id \in Ids :
    LET spec == config[id].dependencies
        n == normalizeDependencies(spec)
        both == n.required \o n.optional
    IN /\ Range(n.all) = Range(both)
       /\ \A j, k \in 1..Len(n.all) : j # k => n.all[j] # n.all[k]
       /\ \A j, k \in 1..Len(n.all) :
            j < k => IndexOf(both, n.all[j]) < IndexOf(both, n.all[k])
       /\ spec.form = "flat" => (n.required = spec.list /\ n.optional = <<>>)
       /\ spec.form = "absent" => (n.required = <<>> /\ n.optional = <<>> /\ n.all = <<>>)

\* C25: an id listed as required and as optional by one resource is gated
\* as required: the dependent starts when the dependency started and is
\* failed without its start being invoked when the dependency failed; so a
\* start pass over such a configuration, when well formed, is not rejected.
C25_RequiredWinsOverOptional ==
  \A B \in Ids : \A A \in RequiredDeps(B) \cap OptionalDeps(B) :
    /\ (AllDepsExist /\ ~HasCycle /\ pc # "idle") => pc # "startThrown"
    /\ pc = "startReturned" =>
         /\ (resources[A].status = "started" /\ ~Happened("assert", B, "threw")) =>
              Happened("start", B, "invoke")
         /\ Failed(A) => (Failed(B) /\ ~Happened("start", B, "invoke"))

\* C26: when a start pass returns every id is either started, with the value
\* its start returned in the system mapping and no error entry, or failed,
\* with an absent value in the system mapping and an error entry; none is
\* left stopped or starting.
C26_StartedOrFailed ==
  pc = "startReturned" =>
    /\ DOMAIN system = Ids
    /\ DOMAIN errors \subseteq Ids
    /\ \A id \in Ids :
         \/ /\ resources[id].status = "started"
            /\ Happened("start", id, "returned")
            /\ system[id] = resources[id].instance
            /\ ~HasError(id)
         \/ /\ resources[id].status = "failed"
            /\ system[id] = Undefined
            /\ HasError(id) /\ errors[id] = resources[id].error /\ errors[id] # NoError

\* a failed, b returned an object: one error entry, one instance.
C26_Witness ==
  /\ pc = "startReturned"
  /\ {"a", "b"} \subseteq Ids
  /\ Failed("a") /\ DOMAIN errors = {"a"}
  /\ resources["b"].status = "started" /\ system["b"] = "obj"

\* C27: a required dependency whose start returned an absent instance is not
\* failed: its dependent's start is invoked (unless the dependent's own
\* assertion throws) and neither has an error entry, save an error the
\* dependent's own assertion or start raised.
C27_AbsentInstanceIsNotFailure ==
  pc = "startReturned" =>
    \A B \in Ids : \A A \in RequiredDeps(B) :
      (Happened("start", A, "returned") /\ system[A] = Undefined) =>
        /\ resources[A].status = "started" /\ ~HasError(A)
        /\ Happened("start", B, "invoke") \/ Happened("assert", B, "threw")
        /\ HasError(B) => (Happened("start", B, "threw") \/ Happened("assert", B, "threw"))

\* a's start returned undefined; b, which requires a, started; no error.
C27_Witness ==
  /\ pc = "startReturned"
  /\ {"a", "b"} \subseteq Ids
  /\ "a" \in RequiredDeps("b")
  /\ Happened("start", "a", "returned") /\ system["a"] = Undefined
  /\ resources["b"].status = "started"
  /\ errors = <<>>

\* C28: a halt pass invokes halt exactly once for every id whose instance is
\* present, whatever its value, and never for an id whose instance is
\* absent; ids with absent instances have no halt error.
C28_HaltEveryPresentInstance ==
  pc = "haltReturned" =>
    \A id \in Ids :
      /\ system[id] # Undefined =>
           (Count("halt", id, "invoke") = 1 /\ Count("halt", id, "returned")
                                               + Count("halt", id, "threw") = 1)
      /\ system[id] = Undefined => (~Happened("halt", id, "invoke") /\ ~HasError(id))

\* The pass is suspended in an operation of order[i].
Awaiting == pc \in {"awaitAssert", "awaitStart", "awaitHalt"}

\* C30: while an operation has not settled the pass makes no progress: the
\* resources later in the order keep the status the pass created them with
\* and have no operation invoked, and the only step the pass takes is the
\* settling of that operation; it does not return before.
C30_WaitsForSettlement ==
  /\ [](Awaiting =>
          /\ calls # <<>> /\ calls[Len(calls)].ev = "invoke"
          /\ calls[Len(calls)].id = order[i]
          /\ \A j \in (i + 1)..Len(order) :
               /\ resources[order[j]].status = (IF pc = "awaitHalt" THEN "started" ELSE "stopped")
               /\ \A k \in 1..Len(calls) : calls[k].id # order[j])
  /\ [][Awaiting =>
          LET n == Len(calls) IN
            /\ Len(calls') > n
            /\ SubSeq(calls', 1, n) = calls
            /\ calls'[n + 1].op = calls[n].op
            /\ calls'[n + 1].id = calls[n].id
            /\ calls'[n + 1].ev \in Settled
            /\ pc' \notin {"startReturned", "haltReturned"}]_vars

\* The pass is suspended in the start of a while b and c are still to come.
C30_Witness ==
  /\ pc = "awaitStart"
  /\ Ids = {"a", "b", "c"}
  /\ i = 1 /\ order[1] = "a"
  /\ resources["b"].status = "stopped" /\ resources["c"].status = "stopped"

\* A sequence without repetitions.
NoRepeat(q) == \A j, k \in 1..Len(q) : j # k => q[j] # q[k]

\* C29: when every invoked operation settles, a start pass over a valid
\* configuration returns, having attempted every resource exactly once in
\* startup order; a halt pass returns, having visited every resource once in
\* shutdown order (a halt for each instance that called for one, in order).
C29_PassesReturn ==
  /\ (pc \in {"startLoop", "awaitAssert", "awaitStart"}) ~>
       (/\ pc = "startReturned"
        /\ Attempted = topology.startupOrder
        /\ NoRepeat(Attempted) /\ Range(Attempted) = Ids)
  /\ (pc \in {"haltLoop", "awaitHalt"}) ~>
       (/\ pc = "haltReturned"
        /\ i = Len(order) + 1
        /\ order = topology.shutdownOrder
        /\ NoRepeat(order) /\ Range(order) = Ids
        /\ HaltInvoked = SelectSeq(order, LAMBDA id : Truthy(system[id])))

\* A halt pass over three resources returned after a start pass in which an
\* assertion and a start had failed.
C29_Witness ==
  /\ pc = "haltReturned"
  /\ Ids = {"a", "b", "c"}
  /\ i = Len(order) + 1
  /\ Cardinality({id \in Ids : system[id] = Undefined}) = 2
  /\ Len(HaltInvoked) = 1

\* What a start pass that ran alone has made of a resource, read off the
\* log of its own operations.
StartStatus(log, id) ==
  IF \E k \in 1..Len(log) : log[k] = Call("start", id, "returned") THEN "started"
  ELSE IF \E k \in 1..Len(log) : log[k].id = id /\ log[k].ev = "threw" THEN "failed"
  ELSE IF \E k \in 1..Len(log) : log[k].id = id THEN "starting"
  ELSE "stopped"
StartError(log, id) ==
  IF \E k \in 1..Len(log) : log[k] = Call("start", id, "threw") THEN RawError("start", id)
  ELSE IF \E k \in 1..Len(log) : log[k] = Call("assert", id, "threw")
  THEN InvalidDependencies(id)
  ELSE NoError
\* The same for a halt pass.
HaltStatus(log, id) ==
  IF \E k \in 1..Len(log) : log[k] = Call("halt", id, "returned") THEN "stopped"
  ELSE IF \E k \in 1..Len(log) : log[k].id = id THEN "halting"
  ELSE "started"

\* The locals of the first call, as a record like `second`.
FirstPass == [pc |-> pc, resources |-> resources, started |-> started, errors |-> errors,
              order |-> order, i |-> i, deps |-> deps, topology |-> topology,
              thrown |-> thrown, system |-> system, calls |-> calls]

\* The start pass p stands as it would had it run alone with the outcomes
\* of its own operations.
StartedAlone(p) ==
  p.pc \in StartPcs =>
    /\ p.topology = buildTopology(config, topologicalSort(config).order)
    /\ DOMAIN p.resources = Ids
    /\ \A id \in Ids :
         /\ p.resources[id].status = StartStatus(p.calls, id)
         /\ (id \in DOMAIN p.errors) = (StartError(p.calls, id) # NoError)
         /\ id \in DOMAIN p.errors => p.errors[id] = StartError(p.calls, id)
         /\ (id \in DOMAIN p.started) = (StartStatus(p.calls, id) \in {"started", "failed"})
         /\ id \in DOMAIN p.started =>
              p.started[id] = (IF StartStatus(p.calls, id) = "started"
                               THEN p.resources[id].instance ELSE Undefined)
    /\ p.pc = "startReturned" =>
         \A id \in Ids : p.system[id] = (IF StartStatus(p.calls, id) = "started"
                                         THEN p.resources[id].instance ELSE Undefined)

\* The halt pass stands as it would had it run alone.
HaltedAlone ==
  pc \in HaltPcs =>
    /\ DOMAIN resources = Ids
    /\ \A id \in Ids :
         /\ resources[id].status = HaltStatus(calls, id)
         /\ resources[id].instance = (IF HaltStatus(calls, id) = "stopped"
                                      THEN Undefined ELSE system[id])
         /\ (id \in DOMAIN errors) = Happened("halt", id, "threw")
         /\ id \in DOMAIN errors => errors[id] = RawError("halt", id)

\* C21: passes share no state: with a second start pass over the same
\* configuration interleaved with a start pass and its halt pass, each
\* pass's statuses, instance map, error map and topology are what the pass
\* makes of its own operations alone, and no step of one pass changes
\* anything of the other.
C21_PassesAreIsolated ==
  /\ [](StartedAlone(FirstPass) /\ StartedAlone(second) /\ HaltedAlone)
  /\ [][second' # second => UNCHANGED firstCall]_vars
  /\ [][firstCall' # firstCall => second' = second]_vars

\* Both calls are suspended in the start of b; a failed in the first call
\* and started in the second.
C21_Witness ==
  /\ pc = "awaitStart" /\ second.pc = "awaitStart"
  /\ Ids = {"a", "b"}
  /\ order[i] = "b" /\ second.order[second.i] = "b"
  /\ resources["a"].status = "failed"
  /\ second.resources["a"].status = "started"

\* C23: the topology a start pass returns is that of the configuration
\* alone: two start passes over one configuration have equal topologies
\* whatever operations fail in either, and nothing a pass does after
\* building its topology changes it.
C23_TopologyFromConfigOnly ==
  /\ []((pc \in StartPcs \cup HaltPcs /\ second.pc \in StartPcs) =>
          topology = second.topology)
  /\ [][(pc \in StartPcs \cup HaltPcs) => topology' = topology]_vars
  /\ [][(second.pc \in StartPcs) => second'.topology = second.topology]_vars

\* Both calls returned, b depending on a; in the first a's start failed, in
\* the second nothing did; the topologies are equal.
C23_Witness ==
  /\ pc = "startReturned" /\ second.pc = "startReturned"
  /\ Ids = {"a", "b"}
  /\ "a" \in DeclaredDeps("b")
  /\ DOMAIN errors = {"a"} /\ DOMAIN second.errors = {}
  /\ topology = second.topology
  /\ topology.maxDepth = 1

\* id lies on a cycle of the dependency graph.
OnCycle(id) == id \in TransDeps(id)
\* id lies on a cycle or depends, directly or transitively, on an id that does.
BehindCycle(id) == OnCycle(id) \/ \E d \in TransDeps(id) \cap Ids : OnCycle(d)

\* C31: when topologicalSort raises the circular-dependency error, the ids it
\* names are the ids missing from the partial result, in declaration order,
\* and they are exactly the ids that lie on a cycle or depend, directly or
\* transitively, on an id that lies on a cycle.
C31_UnprocessedAreBehindCycle ==
  (pc = "startThrown" /\ thrown.kind = "circular") =>
    /\ thrown.unprocessed =
         SelectSeq(KeysOf(config), LAMBDA id : id \notin Range(partialResult(config)))
    /\ thrown.unprocessed = SelectSeq(KeysOf(config), BehindCycle)
    /\ \A id \in Range(partialResult(config)) : ~BehindCycle(id)

\* a and b depend on each other, 2 depends on a, 1 on nothing: the error
\* names 2, a and b and leaves 1 out.
C31_Witness ==
  /\ pc = "startThrown"
  /\ Ids = {"1", "2", "a", "b"}
  /\ OnCycle("a") /\ OnCycle("b") /\ ~OnCycle("2") /\ "a" \in DeclaredDeps("2")
  /\ thrown = CircularError(<<"2", "a", "b">>)

\* The declared (resource, dependency) pairs in declaration order.
DeclaredPairs == EdgePairs([id \in Ids |-> normalizeDependencies(config[id].dependencies).all],
                           KeysOf(config))
\* The first declared pair whose dependency id is no key of the configuration.
FirstMissingPair ==
  LET missing == SelectSeq(DeclaredPairs, LAMBDA p : p[2] \notin Ids)
  IN missing[1]

\* C32: for a configuration that holds both a reference to an id that is no
\* key of it and a cycle, the start pass raises the missing-dependency error
\* naming the first offending (resource, dependency) pair in declaration
\* order, and never the circular-dependency error.
C32_MissingBeforeCircular ==
  (~AllDepsExist /\ HasCycle /\ pc # "idle") =>
    /\ pc = "startThrown"
    /\ thrown = MissingError(FirstMissingPair[1], FirstMissingPair[2])

\* How many times x stands in the sequence q.
Occurrences(q, x) == Cardinality({j \in 1..Len(q) : q[j] = x})

\* C33: in every topology each resource id is a key of graph and of
\* dependents; id stands in dependents[dep] exactly when dep stands in
\* graph[id] (and as many times); dependents[dep] lists the dependents in
\* declaration order.
C33_DependentsInvertGraph ==
  pc = "startLoop" =>
    /\ DOMAIN topology.graph = Ids
    /\ DOMAIN topology.dependents = Ids
    /\ \A id, dep \in Ids :
         /\ (id \in Range(topology.dependents[dep])) = (dep \in Range(topology.graph[id]))
         /\ Occurrences(topology.dependents[dep], id) = Occurrences(topology.graph[id], dep)
    /\ \A dep \in Ids : Range(topology.dependents[dep]) \subseteq Ids
    /\ \A id \in Ids : Range(topology.graph[id]) \subseteq Ids
    /\ \A dep \in Ids : \A j, k \in 1..Len(topology.dependents[dep]) :
         j < k => Decl(topology.dependents[dep][j]) <= Decl(topology.dependents[dep][k])

\* The diamond: 2 and a depend on 1, b depends on 2 and a.
C33_Witness ==
  /\ pc = "startLoop"
  /\ Ids = {"1", "2", "a", "b"}
  /\ topology.graph["b"] = <<"a", "2">>
  /\ topology.dependents["1"] = <<"2", "a">>
  /\ topology.dependents["2"] = <<"b">> /\ topology.dependents["a"] = <<"b">>
  /\ topology.dependents["b"] = <<>>

C35_OptionalInGraph ==
  \A id \in Ids :
    config[id].dependencies.form = "split" =>
      /\ (AllDepsExist /\ ~HasCycle /\ pc # "idle") => pc \in StartPcs \cup HaltPcs
      /\ pc \in StartPcs \cup HaltPcs =>
           /\ topology.graph[id] = normalizeDependencies(config[id].dependencies).all
           /\ \A d \in OptionalDeps(id) :
                /\ topology.depths[id] >= topology.depths[d] + 1
                /\ IndexOf(topology.startupOrder, d) < IndexOf(topology.startupOrder, id)

\* The fields a resource definition is written with.
DefinitionFields == {"dependencies", "hasAssert"}

\* C36: no step of a start pass or of a halt pass changes the caller's
\* configuration: the definitions keep the fields they were written with,
\* and statuses, instances and errors are held by the pass's own runtime
\* entries, one per definition, whatever operations fail.
C36_ConfigurationUntouched ==
  /\ [][config' = config]_vars
  /\ [](/\ \A id \in Ids : DOMAIN config[id] = DefinitionFields
        /\ pc \in StartPcs \cup HaltPcs =>
             /\ DOMAIN resources = Ids
             /\ \A id \in Ids : DOMAIN resources[id] = {"status", "instance", "error"})

\* A halt pass is over after a start pass: a's start had failed, b's halt
\* failed, and the entries hold it all.
C36_Witness ==
  /\ pc = "haltReturned"
  /\ {"a", "b"} \subseteq Ids
  /\ system["a"] = Undefined /\ resources["a"].status = "started"
  /\ Happened("halt", "b", "threw") /\ resources["b"].status = "halting"
  /\ \A id \in Ids : DOMAIN config[id] = DefinitionFields

\* The three conditions of an entry when a halt pass is over.
HaltedEntry(id) ==
  /\ resources[id].status = "stopped" /\ resources[id].instance = Undefined
  /\ Happened("halt", id, "returned") /\ ~HasError(id)
HaltFailedEntry(id) ==
  /\ resources[id].status = "halting"
  /\ resources[id].instance = system[id] /\ resources[id].instance # Undefined
  /\ Happened("halt", id, "threw") /\ HasError(id)
PassedOverEntry(id) ==
  /\ resources[id].status = "started" /\ ~Happened("halt", id, "invoke")
  /\ ~HasError(id)

\* C37: when a halt pass is over every entry is in exactly one of three
\* conditions: stopped with its instance cleared (its halt returned),
\* halting with its instance held and an error entry (its halt threw), or
\* started with no halt invoked, its supplied instance being absent.
C37_HaltOutcomes ==
  pc = "haltReturned" =>
    \A id \in Ids :
      /\ HaltedEntry(id) \/ HaltFailedEntry(id) \/ PassedOverEntry(id)
      /\ PassedOverEntry(id) => system[id] = Undefined

\* The ids whose halt operation a pass with the log `log` invoked, in order.
HaltInvokedIn(log) ==
  LET inv == SelectSeq(log, LAMBDA c : c.op = "halt" /\ c.ev = "invoke")
  IN [k \in 1..Len(inv) |-> inv[k].id]

\* C38: a halt pass leaves the started-system mapping it was given
\* unchanged, so a second halt pass over the same configuration and the same
\* started system invokes the halt of every present instance again, once
\* each, in the order of the first pass.
C38_SecondHaltRepeats ==
  /\ [][(pc \in HaltPcs) => system' = system]_vars
  /\ []((pc = "haltReturned" /\ second.pc = "haltReturned") =>
         /\ \A id \in Ids :
              system[id] # Undefined =>
                Occurrences(HaltInvokedIn(second.calls), id) = 1
         /\ HaltInvokedIn(second.calls) = HaltInvoked)

====
